---- MODULE Spec2Model ----
(***************************************************************************)
(* The BPF ring buffer consumer of src/src/ringbuf.rs (Ringbuf::poll_read, *)
(* roundup_len, u32::align_up) running against the kernel producer on the  *)
(* shared consumer-position cell, producer-position cell and data region.  *)
(*                                                                         *)
(* The data region is modelled byte by byte.  A u32 is the record          *)
(* [hi |-> bits 31..30, lo |-> bits 29..0], so that the busy bit (bit 31), *)
(* the discard bit (bit 30) and wrapping 32-bit arithmetic are exact.      *)
(* Positions are u64 counters; within the bounds below they stay far from  *)
(* 2^64, so their additions are written without a modulus.  Each volatile  *)
(* access is one atomic step and the steps of the two sides interleave     *)
(* (the ordering the fences are there to give).                            *)
(***************************************************************************)
EXTENDS Integers, Sequences, FiniteSets, TLC

VARIABLES
    consumer,       \* the consumer-position cell (page mapped read-write)
    producer,       \* the producer-position cell (first page of the producer mapping)
    data,           \* the data region, one byte per offset below max_entries
    pc,             \* where the consumer is inside poll_read ("idle": not in a call)
    consumer_pos,   \* poll_read's local consumer_pos
    producer_pos,   \* poll_read's local producer_pos
    len,            \* poll_read's local len (the header last read)
    len_ptr,        \* poll_read's local len_ptr, as an offset into the data region
    result,         \* poll_read's local result
    buf,            \* the caller's ReadBuf: [cap, filled]
    ret,            \* what the last call of poll_read returned
    ready,          \* AsyncFd's cached read-readiness
    waker,          \* TRUE while the task's waker is registered with the reactor
    guard,          \* poll_read's readiness guard: "none", "current" or "stale"
    entries,        \* history: the entries the kernel reserved, in ring order
    log,            \* history: one event per consumer-position write
    hdr_in,         \* argument of the roundup_len call under test
    rl_out,         \* its result
    sysconf_ret,    \* what sysconf(_SC_PAGE_SIZE) returns on this system
    calls,          \* history: the calls made to the system, [name, arg, ret]
    open_fds,       \* the process's open descriptors
    closes,         \* history: the descriptors closed, in order
    C,              \* ArrayUmem's chunk size parameter
    N,              \* ArrayUmem's chunk count parameter
    au_pc,          \* where ArrayUmem::new is
    ptr,            \* the pointer ArrayUmem::new hands to from_raw
    new_ret,        \* what ArrayUmem::new returned
    area,           \* a UmemStorage: [start, chunk_size, num_chunks]
    fd,             \* with_area's fd: None as <<>>, an owned descriptor as <<n>>
    config,         \* with_area's config: [frame_headroom, flags]
    wa_pc,          \* where Umem::with_area is
    page_size,      \* the local page_size of with_area and of from_map
    reg,            \* with_area's local reg: <<>> until UmemReg::new has built it
    with_area_ret,  \* what Umem::with_area returned
    umem,           \* the Umem returned: <<>> or <<[area, fd, config]>>
    map,            \* from_map's argument: [map_type, max_entries, fd]
    fm_pc,          \* where Ringbuf::from_map is
    fm_mask,        \* from_map's local mask
    mmap_sz,        \* from_map's local mmap_sz
    fm_consumer,    \* from_map's local consumer (a pointer)
    fm_producer,    \* from_map's local producer (a pointer)
    ringbuf,        \* the Ringbuf constructed: <<>> or <<[fd, mask, consumer, producer, data]>>
    from_map_ret,   \* what Ringbuf::from_map returned
    mappings,       \* the page mappings of the process: a set of [addr, len]
    registered,     \* the descriptors registered with the runtime's reactor
    access          \* the addresses one pass of poll_read's loop computes: <<>> or
                    \* <<[consumer_pos, len_ptr, len, slice]>>

ringvars == <<consumer, producer, data, pc, consumer_pos, producer_pos, len, len_ptr,
              result, buf, ret, ready, waker, guard, entries, log>>

roundupvars == <<hdr_in, rl_out>>

\* the system as the constructors see it
sysvars == <<sysconf_ret, calls, open_fds, closes, mappings, registered>>

arrayvars == <<C, N, au_pc, ptr, new_ret>>

umemvars == <<area, fd, config, wa_pc, reg, with_area_ret, umem>>

mapvars == <<map, fm_pc, fm_mask, mmap_sz, fm_consumer, fm_producer, ringbuf,
             from_map_ret, access>>

\* what the ring-buffer reads leave alone
setupvars == <<sysvars, page_size, arrayvars, umemvars, mapvars>>

vars == <<ringvars, roundupvars, setupvars>>

----------------------------------------------------------------------------
(* Bounds *)

\* Number of entries the kernel reserves in one behaviour.
MaxEntries == 3

\* Payload lengths the kernel reserves (footprints 16 and 24).
Lens == {3, 10}

\* The destination buffers a caller passes: [cap, bytes already filled].
Bufs == { [cap |-> 12, filled |-> <<>>],
          [cap |-> 8,  filled |-> <<255, 255, 255, 255>>],
          [cap |-> 8,  filled |-> <<255, 255, 255, 255, 255, 255>>] }

----------------------------------------------------------------------------
(* Program constants and the ring's shape *)

BPF_RINGBUF_HDR_SZ == 8

\* map.info().max_entries: the capacity of the data region in bytes.
max_entries == 64

mask == max_entries - 1

U32(h, l) == [hi |-> h, lo |-> l]

BPF_RINGBUF_BUSY_BIT == U32(2, 0)

BPF_RINGBUF_DISCARD_BIT == U32(1, 0)

----------------------------------------------------------------------------
(* 32-bit arithmetic *)

\* a & b on u32
U32And(a, b) ==
    LET bit1 == (a.hi \div 2) * (b.hi \div 2)
        bit0 == (a.hi % 2) * (b.hi % 2)
        RECURSIVE andlo(_, _, _)
        andlo(x, y, n) ==
            IF n = 0 \/ x = 0 \/ y = 0 THEN 0
            ELSE (x % 2) * (y % 2) + 2 * andlo(x \div 2, y \div 2, n - 1)
    IN  U32(2 * bit1 + bit0, andlo(a.lo, b.lo, 30))

U32IsZero(a) == a.hi = 0 /\ a.lo = 0

\* a + c on u32, wrapping, for 0 <= c < 2^30
U32Add(a, c) ==
    LET s == a.lo + c
    IN  U32((a.hi + s \div 2^30) % 4, s % 2^30)

\* whether a + c leaves the u32 range
U32AddOverflows(a, c) == a.hi + (a.lo + c) \div 2^30 > 3

\* a / b on u32, for b a power of two below 2^30
U32Div(a, b) ==
    LET q == a.hi * (2^30 \div b) + a.lo \div b
    IN  U32(q \div 2^30, q % 2^30)

\* a * b on u32, wrapping, for b a power of two below 2^30
U32Mul(a, b) ==
    LET part == 2^30 \div b
    IN  U32((a.hi * b + a.lo \div part) % 4, (a.lo % part) * b)

\* len <<= 2; len >>= 2
ShlShr2(a) == U32(0, a.lo)

\* x as u64 / as usize
AsU64(a) == a.hi * 2^30 + a.lo

----------------------------------------------------------------------------
(* utility.rs and the pure helpers of ringbuf.rs *)

\* u32::align_up: ((n + (bound - 1)) / bound) * bound
align_up(n, bound) == U32Mul(U32Div(U32Add(n, bound - 1), bound), bound)

\* roundup_len without the final alignment
roundup_len_unaligned(l) == U32Add(ShlShr2(l), BPF_RINGBUF_HDR_SZ)

\* roundup_len without the two shifts: the flag bits stay in the length
roundup_len_keeps_flags(l) == align_up(U32Add(l, BPF_RINGBUF_HDR_SZ), 8)

\* roundup_len: drop the busy and discard bits, add the header size, align to 8
roundup_len(l) == align_up(U32Add(ShlShr2(l), BPF_RINGBUF_HDR_SZ), 8)

\* whether one of roundup_len's two additions leaves the u32 range
roundup_len_overflows(l) ==
    \/ U32AddOverflows(ShlShr2(l), BPF_RINGBUF_HDR_SZ)
    \/ U32AddOverflows(U32Add(ShlShr2(l), BPF_RINGBUF_HDR_SZ), 8 - 1)

----------------------------------------------------------------------------
(* The mapped data region: 2 * max_entries bytes, the second half mapping  *)
(* the same pages as the first.                                            *)

DataByte(off) == data[off % max_entries]

\* read_volatile_fence(ptr as *const u32): four bytes, little-endian
read_volatile_u32(off) ==
    U32(DataByte(off + 3) \div 64,
        DataByte(off) + 256 * DataByte(off + 1) + 65536 * DataByte(off + 2)
          + 16777216 * (DataByte(off + 3) % 64))

\* slice::from_raw_parts(data, n): the n bytes starting at offset off
slice_from_raw_parts(off, n) == [i \in 1..n |-> DataByte(off + i - 1)]

\* the four bytes of a u32 in memory
U32Bytes(a) ==
    << a.lo % 256, (a.lo \div 256) % 256, (a.lo \div 65536) % 256,
       (a.lo \div 16777216) + 64 * a.hi >>

\* memory m with the bytes bs stored from offset off on (wrapping at max_entries)
Store(m, off, bs) ==
    [o \in DOMAIN m |->
        LET i == ((o - off) % max_entries) + 1
        IN  IF i <= Len(bs) THEN bs[i] ELSE m[o]]

----------------------------------------------------------------------------
(* tokio's ReadBuf, as poll_read uses it *)

ReadBuf_capacity(b) == b.cap

ReadBuf_remaining(b) == b.cap - Len(b.filled)

\* put_slice panics when the slice is longer than the remaining capacity
put_slice_panics(b, s) == ReadBuf_remaining(b) < Len(s)

put_slice(b, s) == [b EXCEPT !.filled = @ \o s]

----------------------------------------------------------------------------
(* The conditions and addresses poll_read computes *)

\* consumer_pos as usize & self.mask (mask + 1 is a power of two)
header_offset(pos) == pos % (mask + 1)

\* the busy test made on bit 30
is_busy_wrong_bit(l) == ~U32IsZero(U32And(l, BPF_RINGBUF_DISCARD_BIT))

\* len & BPF_RINGBUF_BUSY_BIT != 0
is_busy(l) == ~U32IsZero(U32And(l, BPF_RINGBUF_BUSY_BIT))

\* the discard test made on bit 31
is_discard_wrong_bit(l) == ~U32IsZero(U32And(l, BPF_RINGBUF_BUSY_BIT))

\* len & BPF_RINGBUF_DISCARD_BIT != 0
is_discard(l) == ~U32IsZero(U32And(l, BPF_RINGBUF_DISCARD_BIT))

\* the payload taken to start right after the 4-byte length word
payload_offset_after_len(lp) == lp + 4

\* len_ptr.add(BPF_RINGBUF_HDR_SZ as usize)
payload_offset(lp) == lp + BPF_RINGBUF_HDR_SZ

\* buf.capacity() >= slice.len(), for a slice of n bytes
has_capacity(b, n) == ReadBuf_capacity(b) >= n

----------------------------------------------------------------------------
(* The kernel producer.  An entry is reserved (header with the busy bit,   *)
(* producer position advanced) and later committed (payload written, then  *)
(* the header exchanged) or discarded.  Entries reserved by different CPUs *)
(* may be committed in any order.                                          *)

\* the kernel's footprint of a record of n payload bytes
KernelFootprint(n) == ((n + 8 + 7) \div 8) * 8

\* the second header word (the record's page offset), never read by the consumer
PgOffBytes == <<3, 0, 0, 0>>

\* the payload the kernel writes into the k-th entry
Payload(k, n) == [i \in 1..n |-> 16 * k + i]

KernelReserve(n) ==
    /\ Len(entries) < MaxEntries
    /\ producer + KernelFootprint(n) - consumer <= mask
    /\ data' = Store(data, producer % max_entries, U32Bytes(U32(2, n)) \o PgOffBytes)
    /\ producer' = producer + KernelFootprint(n)
    /\ entries' = Append(entries, [pos |-> producer, len |-> n, st |-> "busy"])
    /\ UNCHANGED <<consumer, pc, consumer_pos, producer_pos, len, len_ptr, result,
                   buf, ret, ready, waker, log, hdr_in, rl_out, guard>>
    /\ UNCHANGED setupvars

\* the wake-up the kernel sends when the consumer has caught up with this record:
\* the reactor records a new readiness event (a guard taken before it is stale
\* from then on) and wakes the registered task
KernelNotify(k) ==
    IF consumer % max_entries = entries[k].pos % max_entries
    THEN /\ ready' = TRUE
         /\ waker' = FALSE
         /\ guard' = IF guard = "current" THEN "stale" ELSE guard
    ELSE UNCHANGED <<ready, waker, guard>>

\* the payload is written, then the header is exchanged for the length alone
KernelCommit(k) ==
    /\ entries[k].st = "busy"
    /\ data' = Store(Store(data, (entries[k].pos + 8) % max_entries,
                           Payload(k, entries[k].len)),
                     entries[k].pos % max_entries, U32Bytes(U32(0, entries[k].len)))
    /\ entries' = [entries EXCEPT ![k].st = "committed"]
    /\ KernelNotify(k)
    /\ UNCHANGED <<consumer, producer, pc, consumer_pos, producer_pos, len, len_ptr,
                   result, buf, ret, log, hdr_in, rl_out>>
    /\ UNCHANGED setupvars

\* the header is exchanged for the length with the discard bit
KernelDiscard(k) ==
    /\ entries[k].st = "busy"
    /\ data' = Store(data, entries[k].pos % max_entries, U32Bytes(U32(1, entries[k].len)))
    /\ entries' = [entries EXCEPT ![k].st = "discarded"]
    /\ KernelNotify(k)
    /\ UNCHANGED <<consumer, producer, pc, consumer_pos, producer_pos, len, len_ptr,
                   result, buf, ret, log, hdr_in, rl_out>>
    /\ UNCHANGED setupvars

----------------------------------------------------------------------------
(* Ringbuf::poll_read, one action per access to the shared cells or the    *)
(* reactor.                                                                *)

\* the call's locals go out of scope when it returns
Return ==
    /\ pc' = "idle"
    /\ consumer_pos' = 0
    /\ producer_pos' = 0
    /\ len' = U32(0, 0)
    /\ len_ptr' = 0
    /\ result' = "ok"

\* the call that starts from position 0 instead of the consumer cell
PollRead_from_zero(b) ==
    /\ pc = "idle"
    /\ buf' = b
    /\ consumer_pos' = 0
    /\ ret' = "none"
    /\ pc' = "read_producer"
    /\ UNCHANGED <<consumer, producer, data, producer_pos, len, len_ptr, result,
                   ready, waker, entries, log, hdr_in, rl_out, guard>>
    /\ UNCHANGED setupvars

\* the call starts with a destination buffer b: read the consumer position
PollRead(b) ==
    /\ pc = "idle"
    /\ buf' = b
    /\ consumer_pos' = consumer
    /\ ret' = "none"
    /\ pc' = "read_producer"
    /\ UNCHANGED <<consumer, producer, data, producer_pos, len, len_ptr, result,
                   ready, waker, entries, log, hdr_in, rl_out, guard>>
    /\ UNCHANGED setupvars

\* top of the loop: read the producer position and compare
ReadProducer ==
    /\ pc = "read_producer"
    /\ producer_pos' = producer
    /\ pc' = IF consumer_pos = producer THEN "poll_read_ready" ELSE "read_header"
    /\ UNCHANGED <<consumer, producer, data, consumer_pos, len, len_ptr, result,
                   buf, ret, ready, waker, entries, log, hdr_in, rl_out, guard>>
    /\ UNCHANGED setupvars

\* the readiness poll that retries instead of returning Pending
PollReadReady_spins ==
    /\ pc = "poll_read_ready"
    /\ guard' = "current"
    /\ pc' = "clear_ready"
    /\ UNCHANGED <<consumer, producer, data, consumer_pos, producer_pos, len, len_ptr,
                   result, buf, ret, ready, waker, entries, log, hdr_in, rl_out>>
    /\ UNCHANGED setupvars

\* ready!(self.fd.poll_read_ready(cx))?
\* (the runtime's I/O driver is taken to be alive: the poll yields a guard for
\* the readiness event it saw, or registers the waker and returns Pending)
PollReadReady ==
    /\ pc = "poll_read_ready"
    /\ IF ready
       THEN /\ guard' = "current"
            /\ pc' = "clear_ready"
            /\ UNCHANGED <<ret, waker, consumer_pos, producer_pos, len, len_ptr, result>>
       ELSE /\ waker' = TRUE
            /\ ret' = "pending"
            /\ Return
            /\ UNCHANGED guard
    /\ UNCHANGED <<consumer, producer, data, ready, buf, entries, log, hdr_in, rl_out>>
    /\ UNCHANGED setupvars

\* guard.clear_ready(); continue
\* (the readiness is cleared unless the reactor has recorded a newer event than
\* the one the guard was taken for; the guard is dropped)
ClearReady ==
    /\ pc = "clear_ready"
    /\ ready' = IF guard = "current" THEN FALSE ELSE ready
    /\ guard' = "none"
    /\ pc' = "read_producer"
    /\ UNCHANGED <<consumer, producer, data, consumer_pos, producer_pos, len, len_ptr,
                   result, buf, ret, waker, entries, log, hdr_in, rl_out>>
    /\ UNCHANGED setupvars

\* the header read that gives up with Pending when the entry is busy
ReadHeader_pending_on_busy ==
    /\ pc = "read_header"
    /\ LET lp == header_offset(consumer_pos)
           l  == read_volatile_u32(lp)
       IN  IF is_busy(l)
           THEN /\ waker' = TRUE
                /\ ret' = "pending"
                /\ Return
           ELSE /\ len_ptr' = lp
                /\ len' = l
                /\ consumer_pos' = consumer_pos + AsU64(roundup_len(l))
                /\ pc' = IF is_discard(l) THEN "publish_discard" ELSE "copy"
                /\ UNCHANGED <<producer_pos, result, ret, waker>>
    /\ UNCHANGED <<consumer, producer, data, buf, ready, entries, log, hdr_in, rl_out,
                   guard>>
    /\ UNCHANGED setupvars

\* read the header at the consumer position; retry when busy, else advance the
\* local consumer position by the footprint
ReadHeader ==
    /\ pc = "read_header"
    /\ LET lp == header_offset(consumer_pos)
           l  == read_volatile_u32(lp)
       IN  /\ len_ptr' = lp
           /\ len' = l
           /\ IF is_busy(l)
              THEN /\ pc' = "read_producer"
                   /\ UNCHANGED consumer_pos
              ELSE /\ consumer_pos' = consumer_pos + AsU64(roundup_len(l))
                   /\ pc' = IF is_discard(l) THEN "publish_discard" ELSE "copy"
    /\ UNCHANGED <<consumer, producer, data, producer_pos, result, buf, ret, ready,
                   waker, entries, log, hdr_in, rl_out, guard>>
    /\ UNCHANGED setupvars

\* the discard branch that continues without writing the consumer position
PublishDiscard_no_write ==
    /\ pc = "publish_discard"
    /\ pc' = "read_producer"
    /\ UNCHANGED <<consumer, producer, data, consumer_pos, producer_pos, len, len_ptr,
                   result, buf, ret, ready, waker, guard, entries, log, hdr_in, rl_out>>
    /\ UNCHANGED setupvars

\* the discard branch that writes the producer position it read
PublishDiscard_producer_pos ==
    /\ pc = "publish_discard"
    /\ consumer' = producer_pos
    /\ log' = Append(log, [kind |-> "discard", from |-> consumer, to |-> producer_pos,
                           bytes |-> <<>>])
    /\ pc' = "read_producer"
    /\ UNCHANGED <<producer, data, consumer_pos, producer_pos, len, len_ptr, result,
                   buf, ret, ready, waker, entries, hdr_in, rl_out, guard>>
    /\ UNCHANGED setupvars

\* the discard branch that also clears the first byte of the header it skipped
PublishDiscard_clears_header ==
    /\ pc = "publish_discard"
    /\ consumer' = consumer_pos
    /\ data' = [data EXCEPT ![len_ptr % max_entries] = 0]
    /\ log' = Append(log, [kind |-> "discard", from |-> consumer, to |-> consumer_pos,
                           bytes |-> <<>>])
    /\ pc' = "read_producer"
    /\ UNCHANGED <<producer, consumer_pos, producer_pos, len, len_ptr, result,
                   buf, ret, ready, waker, entries, hdr_in, rl_out, guard>>
    /\ UNCHANGED setupvars

\* discard bit set: write the consumer position and go for the next element
PublishDiscard ==
    /\ pc = "publish_discard"
    /\ consumer' = consumer_pos
    /\ log' = Append(log, [kind |-> "discard", from |-> consumer, to |-> consumer_pos,
                           bytes |-> <<>>])
    /\ pc' = "read_producer"
    /\ UNCHANGED <<producer, data, consumer_pos, producer_pos, len, len_ptr, result,
                   buf, ret, ready, waker, entries, hdr_in, rl_out, guard>>
    /\ UNCHANGED setupvars

\* make the slice over the payload and put it into the buffer if it has the capacity
Copy ==
    /\ pc = "copy"
    /\ LET slice == slice_from_raw_parts(payload_offset(len_ptr), AsU64(len))
       IN  IF has_capacity(buf, AsU64(len))
           THEN IF put_slice_panics(buf, slice)
                THEN /\ ret' = "panic"
                     /\ Return
                     /\ UNCHANGED buf
                ELSE /\ buf' = put_slice(buf, slice)
                     /\ result' = "ok"
                     /\ pc' = "publish"
                     /\ UNCHANGED <<ret, consumer_pos, producer_pos, len, len_ptr>>
           ELSE /\ result' = "write_zero"
                /\ pc' = "publish"
                /\ UNCHANGED <<buf, ret, consumer_pos, producer_pos, len, len_ptr>>
    /\ UNCHANGED <<consumer, producer, data, ready, waker, guard, entries, log,
                   hdr_in, rl_out>>
    /\ UNCHANGED setupvars

\* the bytes the call appended to the caller's buffer
Delivered ==
    IF result = "ok"
    THEN SubSeq(buf.filled, Len(buf.filled) - AsU64(len) + 1, Len(buf.filled))
    ELSE <<>>

\* the error returned before the consumer position is written back
Publish_unless_error ==
    /\ pc = "publish"
    /\ IF result = "ok"
       THEN /\ consumer' = consumer_pos
            /\ log' = Append(log, [kind |-> result, from |-> consumer,
                                   to |-> consumer_pos, bytes |-> Delivered])
       ELSE UNCHANGED <<consumer, log>>
    /\ ret' = result
    /\ Return
    /\ UNCHANGED <<producer, data, buf, ready, waker, entries, hdr_in, rl_out, guard>>
    /\ UNCHANGED setupvars

\* write the consumer position back and hand the result to the caller
Publish ==
    /\ pc = "publish"
    /\ consumer' = consumer_pos
    /\ log' = Append(log, [kind |-> result, from |-> consumer, to |-> consumer_pos,
                           bytes |-> Delivered])
    /\ ret' = result
    /\ Return
    /\ UNCHANGED <<producer, data, buf, ready, waker, entries, hdr_in, rl_out, guard>>
    /\ UNCHANGED setupvars

----------------------------------------------------------------------------
(* roundup_len on its own, over sample headers *)

\* payload lengths 0..MaxSmallLen and the MaxSmallLen + 1 largest 30-bit lengths
MaxSmallLen == 24

HdrSamples ==
    { U32(h, l) : h \in 0..3,
                  l \in (0..MaxSmallLen) \cup { 2^30 - 1 - k : k \in 0..MaxSmallLen } }

RoundupCall ==
    /\ rl_out = <<>>
    /\ rl_out' = << roundup_len(hdr_in) >>
    /\ UNCHANGED <<consumer, producer, data, pc, consumer_pos, producer_pos, len,
                   len_ptr, result, buf, ret, ready, waker, entries, log,
                   hdr_in, guard>>
    /\ UNCHANGED setupvars

----------------------------------------------------------------------------
(* usize: the machine word of the 64-bit target, as eight bytes, the least *)
(* significant first.  A pointer is the usize of its address.              *)

\* the usize of a number below 2^31
USize(n) == [i \in 1..8 |-> IF i <= 4 THEN (n \div 2^(8 * (i - 1))) % 256 ELSE 0]

\* the usize 2^e, for e in 0..63
USizePow2(e) == [i \in 1..8 |-> IF i = (e \div 8) + 1 THEN 2^(e % 8) ELSE 0]

USizeIsZero(a) == \A i \in 1..8 : a[i] = 0

\* a - 1 on usize, for a non-zero
USizeSub1(a) ==
    LET j == CHOOSE i \in 1..8 : a[i] # 0 /\ \A h \in 1..(i - 1) : a[h] = 0
    IN  [i \in 1..8 |-> IF i < j THEN 255 ELSE IF i = j THEN a[i] - 1 ELSE a[i]]

\* x & y on bytes
RECURSIVE ByteAnd(_, _)
ByteAnd(x, y) ==
    IF x = 0 \/ y = 0 THEN 0
    ELSE (x % 2) * (y % 2) + 2 * ByteAnd(x \div 2, y \div 2)

\* a & b on usize
USizeAnd(a, b) == [i \in 1..8 |-> ByteAnd(a[i], b[i])]

\* a + n on usize for a number n below 2^24: the sum's low eight bytes and the carry out
USizeAddSmall(a, n) ==
    LET RECURSIVE carry(_)
        carry(i) == IF i = 0 THEN 0
                    ELSE (a[i] + USize(n)[i] + carry(i - 1)) \div 256
    IN  [sum |-> [i \in 1..8 |-> (a[i] + USize(n)[i] + carry(i - 1)) % 256],
         carry |-> carry(8)]

\* a % m for m a power of two up to 2^16
USizeMod(a, m) == (a[1] + 256 * a[2]) % m

\* the exact product of two usize values, sixteen bytes
MulWide(a, b) ==
    LET RECURSIVE column(_, _)
        column(i, j) ==
            IF j = 0 THEN 0
            ELSE (IF i - j + 1 \in 1..8 THEN a[j] * b[i - j + 1] ELSE 0) + column(i, j - 1)
        RECURSIVE carry(_)
        carry(i) == IF i = 0 THEN 0 ELSE (column(i, 8) + carry(i - 1)) \div 256
    IN  [i \in 1..16 |-> (column(i, 8) + carry(i - 1)) % 256]

\* a * b that keeps the low 64 bits of the product
wrapping_mul(a, b) == << SubSeq(MulWide(a, b), 1, 8) >>

\* usize::checked_mul: None as <<>>, Some(v) as <<v>>
checked_mul(a, b) ==
    LET w == MulWide(a, b)
    IN  IF \A i \in 9..16 : w[i] = 0 THEN << SubSeq(w, 1, 8) >> ELSE <<>>

\* usize to u64 by try_into: both are 64 bits wide, every value converts
try_into_u64(a) == a

\* c_int as u32
c_int_as_u32(r) ==
    IF r >= 0 THEN U32(r \div 2^30, r % 2^30)
    ELSE U32(2 + ((r + 2^30) + 2^30) \div 2^30, ((r + 2^30) + 2^30) % 2^30)

u32_MAX == U32(3, 2^30 - 1)

----------------------------------------------------------------------------
(* assert.rs: the postconditions checked on the results of system calls *)

\* ExpectPositive: ty > &0
ExpectPositive(ty) == ty > 0

\* a check of the socket's result that lets every value pass
ExpectNotMax_any(ty) == TRUE

\* ExpectNotMax: *ty as u32 != u32::MAX
ExpectNotMax(ty) == c_int_as_u32(ty) # u32_MAX

\* ExpectDefault: ty == &T::default(), on a c_int
ExpectDefault(ty) == ty = 0

\* ExpectNonNullPtr: !(*ty).is_null()
ExpectNonNullPtr(ty) == ~USizeIsZero(ty)

\* utility.rs page_size(): the system's page size, or PageSizeInvalid as <<>>
page_size_result == IF ExpectPositive(sysconf_ret) THEN << sysconf_ret >> ELSE <<>>

\* the sysconf call page_size() makes
SysconfCall == [name |-> "sysconf", arg |-> <<>>, ret |-> sysconf_ret]

\* ptr.align_offset(align) != 0, on a pointer to bytes
unaligned(p, align) == USizeMod(p, align) # 0

----------------------------------------------------------------------------
(* umem.rs: UmemStorage::length, UmemReg::new, Umem::with_area *)

\* self.chunk_size().checked_mul(self.num_chunks()).ok_or(Error::Overflow)
UmemStorage_length(a) ==
    LET m == checked_mul(a.chunk_size, a.num_chunks)
    IN  IF m = <<>> THEN [tag |-> "Err", err |-> "Overflow"]
        ELSE [tag |-> "Ok", val |-> m[1]]

\* UmemReg::new(area, config)
UmemReg_new(a, c) ==
    LET length == UmemStorage_length(a)
    IN  IF length.tag = "Err" THEN length
        ELSE [tag |-> "Ok",
              val |-> [address    |-> try_into_u64(a.start),
                       length     |-> try_into_u64(length.val),
                       chunk_size |-> try_into_u64(a.chunk_size),
                       headroom   |-> c.frame_headroom,
                       flags      |-> c.flags]]

\* an early return that forgets the descriptor instead of dropping it
WithArea_Err_leaks(e) ==
    /\ with_area_ret' = e
    /\ wa_pc' = "done"
    /\ UNCHANGED <<open_fds, closes, umem>>

\* an early return (return Err(..)? or ?): the error goes to the caller and the
\* owned descriptor in scope, if there is one, is dropped, which closes it
WithArea_Err(e) ==
    /\ with_area_ret' = e
    /\ wa_pc' = "done"
    /\ open_fds' = open_fds \ { fd[i] : i \in 1..Len(fd) }
    /\ closes' = closes \o fd
    /\ UNCHANGED umem

\* let page_size = page_size()?;
WithArea_page_size ==
    /\ wa_pc = "page_size"
    /\ calls' = Append(calls, SysconfCall)
    /\ IF page_size_result # <<>>
       THEN /\ page_size' = page_size_result[1]
            /\ wa_pc' = "align"
            /\ UNCHANGED <<with_area_ret, open_fds, closes, umem>>
       ELSE /\ WithArea_Err("PageSizeInvalid")
            /\ UNCHANGED page_size
    /\ UNCHANGED <<area, fd, config, reg, sysconf_ret, mappings, registered>>
    /\ UNCHANGED <<ringvars, roundupvars, arrayvars, mapvars>>

\* if area.start().as_ptr().align_offset(page_size) != 0 { return Err(UnalignedUmem) }
WithArea_align ==
    /\ wa_pc = "align"
    /\ IF unaligned(area.start, page_size)
       THEN WithArea_Err("UnalignedUmem")
       ELSE /\ wa_pc' = "socket"
            /\ UNCHANGED <<with_area_ret, open_fds, closes, umem>>
    /\ UNCHANGED <<area, fd, config, page_size, reg, sysconf_ret, calls, mappings,
                   registered>>
    /\ UNCHANGED <<ringvars, roundupvars, arrayvars, mapvars>>

\* let fd = match fd { None => socket(AF_XDP, SOCK_RAW, 0) checked, Some(fd) => fd };
\* the socket call returns r: -1, or a descriptor that was not open before
WithArea_socket(r) ==
    /\ wa_pc = "socket"
    /\ r \notin open_fds
    /\ IF fd = <<>>
       THEN /\ calls' = Append(calls, [name |-> "socket", arg |-> <<>>, ret |-> r])
            /\ IF ExpectNotMax(r)
               THEN /\ fd' = << r >>
                    /\ open_fds' = IF r >= 0 THEN open_fds \cup {r} ELSE open_fds
                    /\ wa_pc' = "reg"
                    /\ UNCHANGED <<with_area_ret, closes, umem>>
               ELSE /\ WithArea_Err("SocketFdInvalid")
                    /\ UNCHANGED fd
       ELSE /\ wa_pc' = "reg"
            /\ UNCHANGED <<calls, fd, with_area_ret, open_fds, closes, umem>>
    /\ UNCHANGED <<area, config, page_size, reg, sysconf_ret, mappings, registered>>
    /\ UNCHANGED <<ringvars, roundupvars, arrayvars, mapvars>>

\* let reg = UmemReg::new(&area, &config)?;
WithArea_reg ==
    /\ wa_pc = "reg"
    /\ LET r == UmemReg_new(area, config)
       IN  IF r.tag = "Ok"
           THEN /\ reg' = << r.val >>
                /\ wa_pc' = "setsockopt"
                /\ UNCHANGED <<with_area_ret, open_fds, closes, umem>>
           ELSE /\ WithArea_Err(r.err)
                /\ UNCHANGED reg
    /\ UNCHANGED <<area, fd, config, page_size, sysconf_ret, calls, mappings, registered>>
    /\ UNCHANGED <<ringvars, roundupvars, arrayvars, mapvars>>

\* setsockopt(fd, SOL_XDP, XDP_UMEM_REG, &reg, ..) checked; Ok(Umem { area, fd, config })
\* the call returns r
WithArea_setsockopt(r) ==
    /\ wa_pc = "setsockopt"
    /\ calls' = Append(calls, [name |-> "setsockopt", arg |-> <<fd[1], reg[1]>>,
                               ret |-> r])
    /\ IF ExpectDefault(r)
       THEN /\ with_area_ret' = "Ok"
            /\ umem' = << [area |-> area, fd |-> fd[1], config |-> config] >>
            /\ wa_pc' = "done"
            /\ UNCHANGED <<open_fds, closes>>
       ELSE WithArea_Err("UmemReg")
    /\ UNCHANGED <<area, fd, config, page_size, reg, sysconf_ret, mappings, registered>>
    /\ UNCHANGED <<ringvars, roundupvars, arrayvars, mapvars>>

\* what the system calls answer
SysconfResults == {-1, 4096, 16384}

SocketResults == {-1, 3}

SetsockoptResults == {-1, 0}

\* with_area's fd argument: None, or a descriptor the caller owns
CallerFds == { <<>>, <<7>> }

\* storages a caller hands to with_area: start addresses aligned to 16384, to
\* 4096 only and to 16 only; chunk sizes and counts whose product does and does
\* not fit 64 bits
Starts ==
    { [USize(32768) EXCEPT ![6] = 127], [USize(20480) EXCEPT ![6] = 127],
      [USize(32784) EXCEPT ![6] = 127] }

ChunkSizes == { USize(4), USize(2048), USize(4096), USizePow2(32), USizePow2(40) }

NumChunks == { USize(1), USize(3), USizePow2(20), USizePow2(24), USizePow2(32) }

Areas ==
    { [start |-> s, chunk_size |-> c, num_chunks |-> n] :
          s \in Starts, c \in ChunkSizes, n \in NumChunks }

Configs == { [frame_headroom |-> 0, flags |-> 0], [frame_headroom |-> 256, flags |-> 1] }

NoArea == [start |-> USize(0), chunk_size |-> USize(0), num_chunks |-> USize(0)]

----------------------------------------------------------------------------
(* umem.rs: ArrayUmem::new and from_raw *)

\* the const block without the power-of-two assertion
ArrayUmem_const_asserts_no_pow2(c, n) ==
    /\ ~USizeIsZero(c)
    /\ ~USizeIsZero(n)

\* the const block of ArrayUmem::new, evaluated when the program is built
ArrayUmem_const_asserts(c, n) ==
    /\ ~USizeIsZero(c)
    /\ USizeIsZero(USizeAnd(c, USizeSub1(c)))
    /\ ~USizeIsZero(n)

\* the type [[u8; C]; N] exists: its size is at most isize::MAX
ArrayType_fits(c, n) ==
    LET w == MulWide(c, n)
    IN  (\A i \in 9..16 : w[i] = 0) /\ w[8] < 128

\* C * N
usize_mul(c, n) == SubSeq(MulWide(c, n), 1, 8)

\* Layout::from_size_align(size, align): Err as <<>>, Ok(layout) as <<layout>>
Layout_from_size_align(size, align) ==
    LET s == USizeAddSmall(size, align - 1)
    IN  IF /\ \E e \in 0..16 : align = 2^e
           /\ s.carry = 0
           /\ s.sum[8] < 128
        THEN << [size |-> size, align |-> align] >>
        ELSE <<>>

\* the pointers alloc may return: null, or an address with the given alignment
Ptrs ==
    { USize(0), [USize(32768) EXCEPT ![6] = 85], [USize(20480) EXCEPT ![6] = 85],
      [USize(32776) EXCEPT ![6] = 85] }

alloc_results(layout) == { p \in Ptrs : USizeIsZero(p) \/ ~unaligned(p, layout.align) }

\* the program with ArrayUmem::<C, N>::new in it is built
ArrayUmem_build ==
    /\ au_pc = "build"
    /\ IF ArrayUmem_const_asserts(C, N) /\ ArrayType_fits(C, N)
       THEN au_pc' = "new" /\ UNCHANGED new_ret
       ELSE au_pc' = "done" /\ new_ret' = "build error"
    /\ UNCHANGED <<C, N, ptr, sysvars, page_size, ringvars, roundupvars, umemvars, mapvars>>

\* ArrayUmem::new up to the call of from_raw; alloc returns p
ArrayUmem_new(p) ==
    /\ au_pc = "new"
    /\ IF page_size_result = <<>>
       THEN /\ calls' = Append(calls, SysconfCall)
            /\ new_ret' = "PageSizeInvalid"
            /\ au_pc' = "done"
            /\ UNCHANGED ptr
       ELSE LET layout == Layout_from_size_align(usize_mul(C, N), page_size_result[1])
            IN  IF layout = <<>>
                THEN /\ calls' = Append(calls, SysconfCall)
                     /\ new_ret' = "LayoutError"
                     /\ au_pc' = "done"
                     /\ UNCHANGED ptr
                ELSE /\ p \in alloc_results(layout[1])
                     /\ calls' = calls \o << SysconfCall,
                                            [name |-> "alloc", arg |-> layout[1],
                                             ret |-> p] >>
                     /\ IF ExpectNonNullPtr(p)
                        THEN ptr' = p /\ au_pc' = "from_raw" /\ UNCHANGED new_ret
                        ELSE new_ret' = "Allocate" /\ au_pc' = "done" /\ UNCHANGED ptr
    /\ UNCHANGED <<C, N, page_size, sysconf_ret, open_fds, closes, mappings, registered>>
    /\ UNCHANGED <<ringvars, roundupvars, umemvars, mapvars>>

\* ArrayUmem::from_raw(ptr); the storage built answers chunk_size() with C,
\* num_chunks() with N and start() with the pointer
ArrayUmem_from_raw ==
    /\ au_pc = "from_raw"
    /\ calls' = Append(calls, SysconfCall)
    /\ au_pc' = "done"
    /\ IF page_size_result = <<>>
       THEN new_ret' = "PageSizeInvalid" /\ UNCHANGED area
       ELSE IF USizeIsZero(ptr)
       THEN new_ret' = "InvalidUmem" /\ UNCHANGED area
       ELSE IF unaligned(ptr, page_size_result[1])
       THEN new_ret' = "UnalignedUmem" /\ UNCHANGED area
       ELSE /\ new_ret' = "Ok"
            /\ area' = [start |-> ptr, chunk_size |-> C, num_chunks |-> N]
    /\ UNCHANGED <<C, N, ptr, sysconf_ret, open_fds, closes, mappings, registered>>
    /\ UNCHANGED <<fd, config, wa_pc, page_size, reg, with_area_ret, umem>>
    /\ UNCHANGED <<ringvars, roundupvars, mapvars>>

\* the type parameters tried
CSamples ==
    { USize(0), USize(1), USize(3), USize(4), USize(2048), USize(4096), USize(6144),
      USizePow2(32), USizePow2(62), USizePow2(63) }

NSamples ==
    { USize(0), USize(1), USize(2), USize(3), USizePow2(20), USizePow2(31),
      [i \in 1..8 |-> IF i = 8 THEN 127 ELSE 255] }

----------------------------------------------------------------------------
(* ringbuf.rs: Ringbuf::from_map, Ringbuf::new, and the end of a Ringbuf *)

\* mmap's failure value, (void *) -1
MAP_FAILED == [i \in 1..8 |-> 255]

\* what mmap answers: MAP_FAILED, a null pointer, or the address of new pages
MmapResults ==
    { MAP_FAILED, USize(0), [USize(4096) EXCEPT ![6] = 112],
      [USize(1048576) EXCEPT ![6] = 112] }

\* the mmap call created a mapping
Mapped(r) == r # MAP_FAILED /\ ~USizeIsZero(r)

\* crate::assert::expect_or_error(ExpectNonNullPtr, value, error), the check
\* both calls in from_map name
expect_or_error(r, e) ==
    IF ExpectNonNullPtr(r) THEN [tag |-> "Ok", val |-> r] ELSE [tag |-> "Err", err |-> e]

\* p.add(n): the pointer n bytes on; an add that leaves the address space is
\* undefined, and the build may wrap the address or keep the base
ptr_add(p, n) ==
    LET s == USizeAddSmall(p, n)
    IN  IF s.carry = 0 THEN { s.sum } ELSE { s.sum, p }

\* an early return of from_map: return Err(..)? or ?
FromMap_Err(e) ==
    /\ from_map_ret' = e
    /\ fm_pc' = "done"
    /\ UNCHANGED <<ringbuf, registered>>

\* from_map without the test of the map's type
FromMap_check_any_type ==
    /\ fm_pc = "call"
    /\ calls' = Append(calls, SysconfCall)
    /\ fm_mask' = map.max_entries - 1
    /\ IF page_size_result = <<>>
       THEN /\ FromMap_Err("PageSizeInvalid")
            /\ UNCHANGED <<page_size, mmap_sz>>
       ELSE /\ page_size' = page_size_result[1]
            /\ mmap_sz' = page_size_result[1] + 2 * map.max_entries
            /\ fm_pc' = "mmap_consumer"
            /\ UNCHANGED <<from_map_ret, ringbuf, registered>>
    /\ UNCHANGED <<map, fm_consumer, fm_producer, sysconf_ret, open_fds, closes, mappings>>
    /\ UNCHANGED <<ringvars, roundupvars, arrayvars, umemvars, access>>

\* the type test, max_entries, mask, page_size and mmap_sz
FromMap_check ==
    /\ fm_pc = "call"
    /\ IF map.map_type # "RingBuf"
       THEN /\ FromMap_Err("WrongMapType")
            /\ UNCHANGED <<calls, page_size, fm_mask, mmap_sz>>
       ELSE IF map.max_entries = 0
       THEN /\ from_map_ret' = "panic"
            /\ fm_pc' = "done"
            /\ UNCHANGED <<ringbuf, registered, calls, page_size, fm_mask, mmap_sz>>
       ELSE /\ calls' = Append(calls, SysconfCall)
            /\ fm_mask' = map.max_entries - 1
            /\ IF page_size_result = <<>>
               THEN /\ FromMap_Err("PageSizeInvalid")
                    /\ UNCHANGED <<page_size, mmap_sz>>
               ELSE /\ page_size' = page_size_result[1]
                    /\ mmap_sz' = page_size_result[1] + 2 * map.max_entries
                    /\ fm_pc' = "mmap_consumer"
                    /\ UNCHANGED <<from_map_ret, ringbuf, registered>>
    /\ UNCHANGED <<map, fm_consumer, fm_producer, sysconf_ret, open_fds, closes, mappings>>
    /\ UNCHANGED <<ringvars, roundupvars, arrayvars, umemvars, access>>

\* the call mmap(null, length, prot, MAP_SHARED, fd, offset) answering r
MmapCall(length, prot, offset, r) ==
    /\ Mapped(r) => \A m \in mappings : m.addr # r
    /\ calls' = Append(calls, [name |-> "mmap",
                               arg |-> [len |-> length, prot |-> prot, fd |-> map.fd,
                                        off |-> offset],
                               ret |-> r])
    /\ mappings' = IF Mapped(r) THEN mappings \cup { [addr |-> r, len |-> length] }
                   ELSE mappings

\* let consumer = expect_or_error(ExpectNonNullPtr, mmap(.. page_size, RW .. 0), ConsumerMmap)?
FromMap_mmap_consumer(r) ==
    /\ fm_pc = "mmap_consumer"
    /\ MmapCall(page_size, "PROT_READ | PROT_WRITE", 0, r)
    /\ LET c == expect_or_error(r, "ConsumerMmap")
       IN  IF c.tag = "Ok"
           THEN /\ fm_consumer' = c.val
                /\ fm_pc' = "mmap_producer"
                /\ UNCHANGED <<from_map_ret, ringbuf, registered>>
           ELSE /\ FromMap_Err(c.err)
                /\ UNCHANGED fm_consumer
    /\ UNCHANGED <<map, fm_mask, mmap_sz, fm_producer, page_size, sysconf_ret, open_fds,
                   closes>>
    /\ UNCHANGED <<ringvars, roundupvars, arrayvars, umemvars, access>>

\* let producer = expect_or_error(ExpectNonNullPtr, mmap(.. mmap_sz, R .. page_size), ProducerMmap)?
FromMap_mmap_producer(r) ==
    /\ fm_pc = "mmap_producer"
    /\ MmapCall(mmap_sz, "PROT_READ", page_size, r)
    /\ LET p == expect_or_error(r, "ProducerMmap")
       IN  IF p.tag = "Ok"
           THEN /\ fm_producer' = p.val
                /\ fm_pc' = "new"
                /\ UNCHANGED <<from_map_ret, ringbuf, registered>>
           ELSE /\ FromMap_Err(p.err)
                /\ UNCHANGED fm_producer
    /\ UNCHANGED <<map, fm_mask, mmap_sz, fm_consumer, page_size, sysconf_ret, open_fds,
                   closes>>
    /\ UNCHANGED <<ringvars, roundupvars, arrayvars, umemvars, access>>

\* Ok(Self::new(map.as_fd(), mask, consumer, producer, producer.add(page_size))):
\* AsyncFd::with_interest(fd, READABLE) registers the descriptor with the
\* reactor or fails, and new unwraps its result
FromMap_new(registers) ==
    /\ fm_pc = "new"
    /\ IF registers
       THEN /\ registered' = registered \cup { map.fd }
            /\ \E d \in ptr_add(fm_producer, page_size) :
                   ringbuf' = << [fd |-> map.fd, mask |-> fm_mask,
                                  consumer |-> fm_consumer, producer |-> fm_producer,
                                  data |-> d] >>
            /\ from_map_ret' = "Ok"
            /\ fm_pc' = "constructed"
       ELSE /\ from_map_ret' = "panic"
            /\ fm_pc' = "done"
            /\ UNCHANGED <<ringbuf, registered>>
    /\ UNCHANGED <<map, fm_mask, mmap_sz, fm_consumer, fm_producer, page_size>>
    /\ UNCHANGED <<sysconf_ret, calls, open_fds, closes, mappings>>
    /\ UNCHANGED <<ringvars, roundupvars, arrayvars, umemvars, access>>

\* the Ringbuf goes out of scope: its AsyncFd is dropped, which takes the
\* descriptor off the reactor and drops the BorrowedFd; the three pointers are
\* plain values
Ringbuf_drop ==
    /\ fm_pc = "constructed"
    /\ registered' = registered \ { ringbuf[1].fd }
    /\ ringbuf' = <<>>
    /\ fm_pc' = "dropped"
    /\ UNCHANGED <<map, fm_mask, mmap_sz, fm_consumer, fm_producer, from_map_ret,
                   page_size, sysconf_ret, calls, open_fds, closes, mappings>>
    /\ UNCHANGED <<ringvars, roundupvars, arrayvars, umemvars, access>>

\* the maps a caller hands to from_map
Maps ==
    { [map_type |-> t, max_entries |-> m, fd |-> 5] :
          t \in {"RingBuf", "Hash", "PerfEventArray"}, m \in {4096, 65536, 1048576} }

NoMap == [map_type |-> "RingBuf", max_entries |-> max_entries, fd |-> 5]

----------------------------------------------------------------------------
(* ringbuf.rs: the addresses one pass of poll_read's loop computes on a    *)
(* constructed Ringbuf, for a consumer position and the header found there *)

\* a usize below 2^24 as a number
USizeToNat(a) == a[1] + 256 * a[2] + 65536 * a[3]

\* the header address taken without the mask
header_ptr_unmasked(d, pos, m) == ptr_add(d, USizeToNat(pos))

\* self.data.add(consumer_pos as usize & self.mask)
header_ptr(d, pos, m) == ptr_add(d, USizeToNat(USizeAnd(pos, USize(m))))

\* the consumer positions tried: multiples of 8 below, at and above the
\* capacities, and two that need more than 32 bits
PosSamples ==
    { USize(0), USize(8), USize(4088), USize(4096), USize(65528), USize(65536),
      USize(1048568), USize(3145720),
      [USize(4088) EXCEPT ![5] = 1],
      [i \in 1..8 |-> IF i = 1 THEN 248 ELSE 255] }

\* the headers found: committed entries of 0, 3 and capacity - 8 payload
\* bytes, a discarded and a busy one
HeaderSamples ==
    { U32(0, 0), U32(0, 3), U32(0, 4088), U32(0, 65528), U32(0, 1048568),
      U32(1, 3), U32(2, 10) }

\* one pass of the loop from the header address to the slice: len_ptr, the
\* header l read there, and for a committed entry the payload pointer and the
\* slice made over it
Ringbuf_access(pos, l) ==
    /\ fm_pc = "constructed"
    /\ access = <<>>
    /\ KernelFootprint(AsU64(ShlShr2(l))) <= map.max_entries
    /\ \E lp \in header_ptr(ringbuf[1].data, pos, ringbuf[1].mask) :
         \E d \in ptr_add(lp, BPF_RINGBUF_HDR_SZ) :
            access' = << [consumer_pos |-> pos, len_ptr |-> lp, len |-> l,
                          slice |-> IF is_busy(l) \/ is_discard(l) THEN <<>>
                                    ELSE << [data |-> d, len |-> AsU64(l)] >>] >>
    /\ UNCHANGED <<map, fm_pc, fm_mask, mmap_sz, fm_consumer, fm_producer, ringbuf,
                   from_map_ret, page_size, sysvars>>
    /\ UNCHANGED <<ringvars, roundupvars, arrayvars, umemvars>>

----------------------------------------------------------------------------
(* Specifications *)

InitRing ==
    /\ consumer = 0
    /\ producer = 0
    /\ data = [o \in 0..(max_entries - 1) |-> 0]
    /\ pc = "idle"
    /\ consumer_pos = 0
    /\ producer_pos = 0
    /\ len = U32(0, 0)
    /\ len_ptr = 0
    /\ result = "ok"
    /\ buf = [cap |-> 0, filled |-> <<>>]
    /\ ret = "none"
    /\ ready = FALSE
    /\ waker = FALSE
    /\ guard = "none"
    /\ entries = <<>>
    /\ log = <<>>

InitRoundupIdle ==
    /\ hdr_in = U32(0, 0)
    /\ rl_out = <<>>

InitSysIdle ==
    /\ sysconf_ret = 4096
    /\ calls = <<>>
    /\ open_fds = {}
    /\ closes = <<>>
    /\ mappings = {}
    /\ registered = {}
    /\ page_size = 0

InitArrayIdle ==
    /\ C = USize(0)
    /\ N = USize(0)
    /\ au_pc = "idle"
    /\ ptr = USize(0)
    /\ new_ret = "none"

InitUmemIdle ==
    /\ area = NoArea
    /\ fd = <<>>
    /\ config = [frame_headroom |-> 0, flags |-> 0]
    /\ wa_pc = "idle"
    /\ reg = <<>>
    /\ with_area_ret = "none"
    /\ umem = <<>>

InitMapIdle ==
    /\ map = NoMap
    /\ fm_pc = "idle"
    /\ fm_mask = 0
    /\ mmap_sz = 0
    /\ fm_consumer = USize(0)
    /\ fm_producer = USize(0)
    /\ ringbuf = <<>>
    /\ from_map_ret = "none"
    /\ access = <<>>

Init ==
    /\ InitRing
    /\ InitRoundupIdle
    /\ InitSysIdle
    /\ InitArrayIdle
    /\ InitUmemIdle
    /\ InitMapIdle

Kernel ==
    \/ \E n \in Lens : KernelReserve(n)
    \/ \E k \in 1..Len(entries) : KernelCommit(k)
    \/ \E k \in 1..Len(entries) : KernelDiscard(k)

Consumer ==
    \/ \E b \in Bufs : PollRead(b)
    \/ ReadProducer
    \/ PollReadReady
    \/ ClearReady
    \/ ReadHeader
    \/ PublishDiscard
    \/ Copy
    \/ Publish

Next ==
    \/ Kernel
    \/ Consumer

Spec == Init /\ [][Next]_vars

\* the task is polled when it starts, when its last call completed, and after
\* Pending only once the reactor has woken it; a call that panicked unwinds
\* through the caller, which reads no more
WokenPollRead(b) ==
    /\ ret # "panic"
    /\ (ret = "pending" => ~waker)
    /\ PollRead(b)

ConsumerLive ==
    \/ \E b \in Bufs : WokenPollRead(b)
    \/ ReadProducer
    \/ PollReadReady
    \/ ClearReady
    \/ ReadHeader
    \/ PublishDiscard
    \/ Copy
    \/ Publish

\* the BPF program that reserved the k-th entry submits or discards it
KernelSettle(k) ==
    /\ k \in 1..Len(entries)
    /\ (KernelCommit(k) \/ KernelDiscard(k))

NextLive ==
    \/ Kernel
    \/ ConsumerLive

\* the caller keeps reading and the runtime keeps running the woken task; every
\* reserved entry is committed or discarded in the end
SpecLive ==
    /\ Init
    /\ [][NextLive]_vars
    /\ WF_vars(ConsumerLive)
    /\ \A k \in 1..MaxEntries : WF_vars(KernelSettle(k))

InitRoundup ==
    /\ InitRing
    /\ hdr_in \in HdrSamples
    /\ rl_out = <<>>
    /\ InitSysIdle
    /\ InitArrayIdle
    /\ InitUmemIdle
    /\ InitMapIdle

NextRoundup == RoundupCall

SpecRoundup == InitRoundup /\ [][NextRoundup]_vars

\* Umem::with_area on a storage, an optional descriptor and a config
InitUmem ==
    /\ InitRing
    /\ InitRoundupIdle
    /\ InitArrayIdle
    /\ InitMapIdle
    /\ sysconf_ret \in SysconfResults
    /\ calls = <<>>
    /\ fd \in CallerFds
    /\ open_fds = { fd[i] : i \in 1..Len(fd) }
    /\ closes = <<>>
    /\ mappings = {}
    /\ registered = {}
    /\ page_size = 0
    /\ area \in Areas
    /\ config \in Configs
    /\ wa_pc = "page_size"
    /\ reg = <<>>
    /\ with_area_ret = "none"
    /\ umem = <<>>

NextUmem ==
    \/ WithArea_page_size
    \/ WithArea_align
    \/ \E r \in SocketResults : WithArea_socket(r)
    \/ WithArea_reg
    \/ \E r \in SetsockoptResults : WithArea_setsockopt(r)

SpecUmem == InitUmem /\ [][NextUmem]_vars

\* ArrayUmem::<C, N>::new
InitArrayUmem ==
    /\ InitRing
    /\ InitRoundupIdle
    /\ InitUmemIdle
    /\ InitMapIdle
    /\ sysconf_ret \in SysconfResults
    /\ calls = <<>>
    /\ open_fds = {}
    /\ closes = <<>>
    /\ mappings = {}
    /\ registered = {}
    /\ page_size = 0
    /\ C \in CSamples
    /\ N \in NSamples
    /\ au_pc = "build"
    /\ ptr = USize(0)
    /\ new_ret = "none"

NextArrayUmem ==
    \/ ArrayUmem_build
    \/ \E p \in Ptrs : ArrayUmem_new(p)
    \/ ArrayUmem_from_raw

SpecArrayUmem == InitArrayUmem /\ [][NextArrayUmem]_vars

\* Ringbuf::from_map on a map, and the Ringbuf's end
InitFromMap ==
    /\ InitRing
    /\ InitRoundupIdle
    /\ InitArrayIdle
    /\ InitUmemIdle
    /\ sysconf_ret \in SysconfResults
    /\ calls = <<>>
    /\ map \in Maps
    /\ open_fds = { map.fd }
    /\ closes = <<>>
    /\ mappings = {}
    /\ registered = {}
    /\ page_size = 0
    /\ fm_pc = "call"
    /\ fm_mask = 0
    /\ mmap_sz = 0
    /\ fm_consumer = USize(0)
    /\ fm_producer = USize(0)
    /\ ringbuf = <<>>
    /\ from_map_ret = "none"
    /\ access = <<>>

NextFromMap ==
    \/ FromMap_check
    \/ \E r \in MmapResults : FromMap_mmap_consumer(r)
    \/ \E r \in MmapResults : FromMap_mmap_producer(r)
    \/ \E registers \in BOOLEAN : FromMap_new(registers)
    \/ Ringbuf_drop

SpecFromMap == InitFromMap /\ [][NextFromMap]_vars

\* Ringbuf::from_map followed by passes of poll_read's loop on the Ringbuf
NextAccess ==
    \/ FromMap_check
    \/ \E r \in MmapResults : FromMap_mmap_consumer(r)
    \/ \E r \in MmapResults : FromMap_mmap_producer(r)
    \/ \E registers \in BOOLEAN : FromMap_new(registers)
    \/ \E pos \in PosSamples, l \in HeaderSamples : Ringbuf_access(pos, l)
    \/ Ringbuf_drop

SpecAccess == InitFromMap /\ [][NextAccess]_vars

----------------------------------------------------------------------------
(* What the claims are stated over *)

\* the step is one of the consumer's (every step of poll_read moves pc)
ConsumerStep == pc' # pc

\* the kernel's entry that starts at position p (0 when there is none)
EntryAt(p) ==
    IF \E k \in 1..Len(entries) : entries[k].pos = p
    THEN CHOOSE k \in 1..Len(entries) : entries[k].pos = p
    ELSE 0

RECURSIVE SumFootprints(_)
\* the footprints of the first n entries, added up
SumFootprints(n) ==
    IF n = 0 THEN 0 ELSE SumFootprints(n - 1) + KernelFootprint(entries[n].len)

\* the bytes that physically follow the header at offset off, n of them
BytesAfterHeader(off, n) == [i \in 1..n |-> data[(off + 8 + i - 1) % max_entries]]

----------------------------------------------------------------------------
(* Claims *)

\* the j-th write of the consumer position consumed exactly the j-th entry
ConsumedInOrder(j) ==
    /\ j <= Len(entries)
    /\ entries[j].st # "busy"
    /\ log[j].from = entries[j].pos
    /\ log[j].to = entries[j].pos + KernelFootprint(entries[j].len)
    /\ (log[j].kind = "discard") = (entries[j].st = "discarded")

\* C1 as stated: every completed read, failed ones included, has returned the
\* payload of the entry it consumed, so that the payloads returned are exactly
\* the committed non-discarded entries in ring order.
C1_EveryCompletedReadDelivers ==
    \A j \in 1..Len(log) :
        /\ ConsumedInOrder(j)
        /\ (log[j].kind # "discard" => log[j].bytes = Payload(j, entries[j].len))

\* C1 (amended): the consumer-position writes consume the entries one by one in
\* ring order; a discarded entry yields no read result, a successful read
\* returns exactly the payload of the one entry it consumed, and a read that
\* fails with write-overflow consumes its entry and returns no payload. So the
\* payloads returned are, in ring order, the committed non-discarded entries
\* that fitted their buffer: none twice, none reordered.
C1_FifoDelivery ==
    \A j \in 1..Len(log) :
        /\ ConsumedInOrder(j)
        /\ (log[j].kind = "ok" => log[j].bytes = Payload(j, entries[j].len))
        /\ (log[j].kind # "ok" => log[j].bytes = <<>>)

\* three entries consumed, the second discarded, the third wrapping past the
\* end of the data region
C1_Witness ==
    /\ Len(log) = 3
    /\ log[1].kind = "ok" /\ log[2].kind = "discard" /\ log[3].kind = "ok"
    /\ (log[3].from % max_entries) + KernelFootprint(entries[3].len) > max_entries

\* C2: a consumer step taken at the copy of a normal entry of payload length L
\* into a buffer with room appends to the buffer exactly the L bytes that start
\* 8 bytes after the header at the consumer position, and the publishing step
\* that follows writes the old consumer position plus the entry's footprint.
C2_NormalEntryCopied ==
    [][ConsumerStep =>
          LET off == consumer % max_entries
              k   == EntryAt(consumer)
          IN  /\ (pc = "copy" /\ ReadBuf_remaining(buf) >= entries[k].len) =>
                    /\ buf'.cap = buf.cap
                    /\ buf'.filled = buf.filled \o BytesAfterHeader(off, entries[k].len)
                    /\ buf'.filled = buf.filled \o Payload(k, entries[k].len)
                    /\ pc' = "publish"
                    /\ result' = "ok"
              /\ (pc = "publish" =>
                    consumer' = consumer + KernelFootprint(entries[k].len))]_vars

\* a payload that wraps past the end of the data region has been copied
C2_Witness ==
    /\ pc = "publish"
    /\ result = "ok"
    /\ len_ptr + 8 + AsU64(len) > max_entries

\* C3: a consumer step that reads the header of an entry the kernel has not yet
\* committed or discarded changes neither the consumer position nor the buffer
\* and goes back to the top of the loop; and whenever the consumer position
\* changes, the entry it passes is no longer busy.
C3_BusyNeverConsumed ==
    [][ConsumerStep =>
          /\ (pc = "read_header" /\ entries[EntryAt(consumer_pos)].st = "busy") =>
                /\ pc' = "read_producer"
                /\ consumer_pos' = consumer_pos
                /\ UNCHANGED <<consumer, buf, log, ret>>
          /\ (consumer' # consumer =>
                /\ EntryAt(consumer) # 0
                /\ entries[EntryAt(consumer)].st # "busy")]_vars

\* the consumer has just read a header with the busy bit set
C3_Witness == pc = "read_producer" /\ is_busy(len) /\ Len(entries) = 2

\* C4: a consumer step that reads the header of a discarded entry leaves the
\* buffer alone and goes on to publish; that publishing step adds the entry's
\* footprint to the consumer position, leaves the buffer alone, returns nothing
\* and continues the loop; and no discarded entry is ever at the copy step.
C4_DiscardSkipped ==
    [][ConsumerStep =>
          /\ (pc = "read_header" /\ entries[EntryAt(consumer_pos)].st = "discarded") =>
                /\ pc' = "publish_discard"
                /\ buf' = buf
          /\ (pc = "publish_discard" =>
                /\ entries[EntryAt(consumer)].st = "discarded"
                /\ consumer' = consumer + KernelFootprint(entries[EntryAt(consumer)].len)
                /\ buf' = buf
                /\ ret' = ret
                /\ pc' = "read_producer")
          /\ (pc' \in {"copy", "publish"} =>
                entries[EntryAt(consumer)].st = "committed")]_vars

\* within one call a discarded entry has been passed and the loop continues
C4_Witness ==
    /\ pc = "read_header"
    /\ Len(log) > 0
    /\ log[Len(log)].kind = "discard"
    /\ consumer = log[Len(log)].to

\* C5: a read that failed with write-overflow has published the consumer
\* position advanced by the failed entry's footprint, and any later
\* consumer-position write starts at the entry that follows the failed one.
C5_OverflowStillAdvances ==
    /\ (pc = "idle" /\ ret = "write_zero") =>
          /\ Len(log) > 0
          /\ log[Len(log)].kind = "write_zero"
          /\ consumer = log[Len(log)].to
    /\ \A j \in 1..Len(log) :
          log[j].kind = "write_zero" =>
             /\ log[j].to = log[j].from + KernelFootprint(entries[j].len)
             /\ consumer >= log[j].to
             /\ (j < Len(log) => /\ log[j + 1].from = log[j].to
                                 /\ log[j + 1].from = entries[j + 1].pos)

\* a read failed with write-overflow and the next read delivered the next entry
C5_Witness ==
    \E j \in 1..Len(log) :
        /\ j < Len(log)
        /\ log[j].kind = "write_zero"
        /\ log[j + 1].kind = "ok"
        /\ log[j + 1].bytes = Payload(j + 1, entries[j + 1].len)

\* C6: whatever the buffer already holds, the copy of a normal entry fails with
\* write-overflow exactly when the payload is longer than the buffer's remaining
\* capacity, and no call ends in a panic.
C6_RemainingCapacityDecides ==
    /\ ret # "panic"
    /\ (pc = "publish" /\ result = "write_zero") =>
          AsU64(len) > ReadBuf_remaining(buf)
    /\ (pc = "publish" /\ result = "ok") =>
          AsU64(len) <= ReadBuf_capacity(buf)

\* C7: a consumer step taken at the readiness poll while the handle is not
\* read-ready returns pending in that very step, and changes neither the
\* caller's buffer nor the consumer position; the positions were seen equal.
C7_PendingWhenEmpty ==
    [][(ConsumerStep /\ pc = "poll_read_ready" /\ ~ready) =>
          /\ consumer_pos = producer_pos
          /\ pc' = "idle"
          /\ ret' = "pending"
          /\ waker'
          /\ UNCHANGED <<consumer, buf, log, ready>>]_vars

\* a call has returned pending after earlier calls consumed two entries
C7_Witness == pc = "idle" /\ ret = "pending" /\ Len(log) = 2 /\ consumer = producer

\* the ring is drained: no call in progress, every entry consumed
Drained == pc = "idle" /\ Len(entries) > 0 /\ consumer = producer

\* the payloads of the committed entries among the first n, in ring order
RECURSIVE NormalPayloads(_)
NormalPayloads(n) ==
    IF n = 0 THEN <<>>
    ELSE IF entries[n].st = "committed"
         THEN Append(NormalPayloads(n - 1), Payload(n, entries[n].len))
         ELSE NormalPayloads(n - 1)

\* the payloads the reads have returned, in the order of the reads
RECURSIVE ReturnedPayloads(_)
ReturnedPayloads(n) ==
    IF n = 0 THEN <<>>
    ELSE IF log[n].kind = "ok"
         THEN Append(ReturnedPayloads(n - 1), log[n].bytes)
         ELSE ReturnedPayloads(n - 1)

\* the payloads of the committed entries whose read did not overflow
RECURSIVE FittingPayloads(_)
FittingPayloads(n) ==
    IF n = 0 THEN <<>>
    ELSE IF entries[n].st = "committed" /\ log[n].kind # "write_zero"
         THEN Append(FittingPayloads(n - 1), Payload(n, entries[n].len))
         ELSE FittingPayloads(n - 1)

\* C8 as stated: once the ring is drained the reads have returned exactly the
\* normal payloads in order, and the consumer position is the sum of all
\* footprints, which is the producer position.
C8_DrainReturnsAllNormal ==
    Drained =>
        /\ Len(log) = Len(entries)
        /\ ReturnedPayloads(Len(log)) = NormalPayloads(Len(entries))
        /\ consumer = SumFootprints(Len(entries))
        /\ consumer = producer

\* C8 (amended): once the ring is drained every entry has been consumed by one
\* consumer-position write, the successful reads have returned in order exactly
\* the normal payloads except those whose read failed with write-overflow
\* (all of them when no read overflowed), the discarded ones are skipped, and
\* the consumer position is the sum of all footprints, discarded entries
\* included, which is the producer position.
C8_DrainReturnsFitting ==
    Drained =>
        /\ Len(log) = Len(entries)
        /\ ReturnedPayloads(Len(log)) = FittingPayloads(Len(entries))
        /\ ((\A j \in 1..Len(log) : log[j].kind # "write_zero") =>
               ReturnedPayloads(Len(log)) = NormalPayloads(Len(entries)))
        /\ \A j \in 1..Len(log) :
               (log[j].kind = "discard") = (entries[j].st = "discarded")
        /\ consumer = SumFootprints(Len(entries))
        /\ consumer = producer

\* a ring of a normal 10-byte entry, a discarded 3-byte entry and a normal 3-byte
\* entry has been drained: two payloads returned, consumer position 56
C8_Witness ==
    /\ Drained
    /\ Len(entries) = 3
    /\ entries[1].len = 10 /\ entries[2].len = 3 /\ entries[3].len = 3
    /\ entries[2].st = "discarded"
    /\ ReturnedPayloads(Len(log)) = << Payload(1, 10), Payload(3, 3) >>
    /\ consumer = 56

\* C9: for every 32-bit header value roundup_len ignores bits 31 and 30 and
\* returns, for the 30-bit length L, align_up(L + 8, 8): a multiple of 8 that is
\* at least L + 8 and less than L + 16 (1 gives 16, 8 gives 16, 9 gives 24),
\* and neither of its additions leaves the u32 range.
C9_RoundupLen ==
    rl_out # <<>> =>
        LET r == rl_out[1]
            L == hdr_in.lo
        IN  /\ r.hi <= 1
            /\ AsU64(r) = ((L + 8 + 7) \div 8) * 8
            /\ AsU64(r) % 8 = 0
            /\ AsU64(r) >= L + 8
            /\ AsU64(r) < L + 16
            /\ (L = 1 => AsU64(r) = 16)
            /\ (L = 8 => AsU64(r) = 16)
            /\ (L = 9 => AsU64(r) = 24)
            /\ ~roundup_len_overflows(hdr_in)

\* a header with both flag bits set and length 9 has been rounded up to 24
C9_Witness == hdr_in = U32(3, 9) /\ rl_out = << U32(0, 24) >>

\* C10: where a read can be cancelled (the call has returned pending) and at
\* every busy-retry, the consumer position is the sum of the footprints of the
\* entries consumed so far, which is the position of the first unconsumed entry
\* (or the producer position when there is none).
C10_PositionAtEntryBoundary ==
    ((pc = "idle" /\ ret = "pending") \/ (pc = "read_producer" /\ is_busy(len))) =>
        /\ Len(log) <= Len(entries)
        /\ consumer = SumFootprints(Len(log))
        /\ IF Len(log) < Len(entries)
           THEN consumer = entries[Len(log) + 1].pos
           ELSE consumer = producer

\* a busy-retry in a call that has already passed a discarded entry
C10_Witness ==
    /\ pc = "read_producer"
    /\ is_busy(len)
    /\ Len(log) > 0
    /\ log[Len(log)].kind = "discard"
    /\ ret = "none"

\* the k-th entry has been committed or discarded by the kernel
Settled(k) == Len(entries) >= k /\ entries[k].st # "busy"

\* the consumer position has been written past the k-th entry
Consumed(k) == Len(log) >= k

\* the task is suspended: its last call returned Pending and it has not been woken
Suspended == pc = "idle" /\ ret = "pending" /\ waker

\* C11: when the caller keeps reading and the reactor re-polls the task on
\* readiness, every entry the kernel has committed or discarded is eventually
\* consumed, and the consumer does not stay suspended forever while the
\* producer position is ahead of the consumer position.
C11_NoLostWakeup ==
    /\ \A k \in 1..MaxEntries : Settled(k) ~> Consumed(k)
    /\ []<>~(Suspended /\ producer > consumer)

----------------------------------------------------------------------------
(* Claims about Umem::with_area, UmemReg::new and ArrayUmem::new *)

\* a call named n has been made to the system
Issued(n) == \E i \in 1..Len(calls) : calls[i].name = n

\* a call named n has been answered with r
Answered(n, r) == \E i \in 1..Len(calls) : calls[i].name = n /\ calls[i].ret = r

\* the descriptors with_area got from its own socket call
CreatedFds ==
    { calls[i].ret : i \in { j \in 1..Len(calls) : calls[j].name = "socket"
                                                  /\ calls[j].ret >= 0 } }

\* how often descriptor f has been closed
TimesClosed(f) == Cardinality({ i \in 1..Len(closes) : closes[i] = f })

\* the sixteen-byte value of a usize
Wide(a) == [i \in 1..16 |-> IF i <= 8 THEN a[i] ELSE 0]

\* chunk_size * num_chunks fits the machine word
ProductFits(a) == \A i \in 9..16 : MulWide(a.chunk_size, a.num_chunks)[i] = 0

\* with_area got as far as UmemReg::new
ReachedReg ==
    /\ sysconf_ret > 0
    /\ ~unaligned(area.start, sysconf_ret)
    /\ ~Answered("socket", -1)

\* C12: when Umem::with_area has returned, either it returned Ok, and then the
\* page-size query, the alignment check, the descriptor, the registration
\* record and the registration call have all succeeded and the Umem returned
\* owns the storage, the open descriptor and the config; or it returned an
\* error, no Umem exists, and every descriptor with_area created itself has
\* been closed, once. Before it returns there is no Umem.
C12_NoPartialSuccess ==
    /\ wa_pc # "done" => with_area_ret = "none" /\ umem = <<>>
    /\ wa_pc = "done" =>
          \/ /\ with_area_ret = "Ok"
             /\ sysconf_ret > 0
             /\ ~unaligned(area.start, sysconf_ret)
             /\ fd # <<>>
             /\ fd[1] \in open_fds
             /\ reg = << UmemReg_new(area, config).val >>
             /\ calls[Len(calls)] = [name |-> "setsockopt", arg |-> <<fd[1], reg[1]>>,
                                     ret |-> 0]
             /\ umem = << [area |-> area, fd |-> fd[1], config |-> config] >>
             /\ closes = <<>>
          \/ /\ with_area_ret \in {"PageSizeInvalid", "UnalignedUmem", "SocketFdInvalid",
                                   "Overflow", "UmemReg"}
             /\ umem = <<>>
             /\ \A f \in CreatedFds : f \notin open_fds /\ TimesClosed(f) = 1

\* the registration call failed on a descriptor with_area had created, and the
\* descriptor has been closed
C12_Witness ==
    /\ wa_pc = "done"
    /\ with_area_ret = "UmemReg"
    /\ CreatedFds = {3}
    /\ closes = <<3>>
    /\ open_fds = {}

\* C13: when Umem::with_area has returned: a socket call answered with -1 has
\* given SocketFdInvalid and was the last call made; a storage start that is
\* not page-aligned has given UnalignedUmem with nothing but the page-size query
\* made (no socket, no record, no Umem over a moved storage); a product
\* chunk_size * num_chunks that does not fit has given Overflow with no
\* registration call made; a registration call answered with non-zero has given
\* UmemReg; and each of the four errors comes from its own step only.
C13_EachStepOwnError ==
    wa_pc = "done" =>
        /\ Answered("socket", -1) =>
              /\ with_area_ret = "SocketFdInvalid"
              /\ calls[Len(calls)].name = "socket"
              /\ reg = <<>> /\ umem = <<>>
        /\ (sysconf_ret > 0 /\ unaligned(area.start, sysconf_ret)) =>
              /\ with_area_ret = "UnalignedUmem"
              /\ calls = << SysconfCall >>
              /\ reg = <<>> /\ umem = <<>>
        /\ (ReachedReg /\ ~ProductFits(area)) =>
              /\ with_area_ret = "Overflow"
              /\ ~Issued("setsockopt")
              /\ reg = <<>> /\ umem = <<>>
        /\ (\E i \in 1..Len(calls) : calls[i].name = "setsockopt" /\ calls[i].ret # 0) =>
              /\ with_area_ret = "UmemReg"
              /\ umem = <<>>
        /\ with_area_ret = "SocketFdInvalid" => Answered("socket", -1)
        /\ with_area_ret = "UnalignedUmem" => unaligned(area.start, sysconf_ret)
        /\ with_area_ret = "Overflow" => ~ProductFits(area)
        /\ with_area_ret = "UmemReg" => Answered("setsockopt", -1)

\* the overflow was found after the socket had been created, and nothing was
\* registered
C13_Witness ==
    /\ wa_pc = "done"
    /\ with_area_ret = "Overflow"
    /\ Answered("socket", 3)
    /\ area.chunk_size = USizePow2(32)
    /\ area.num_chunks = USizePow2(32)

\* C14: a registration record, once built, has the storage's start as address,
\* the exact product chunk_size * num_chunks as length, the storage's chunk
\* size, and the config's headroom and flags; when the product fits, length()
\* is that product; when it does not fit 64 bits, length() and UmemReg::new
\* give the Overflow error, no record is built and no registration call is made.
C14_RegistrationRecord ==
    /\ reg # <<>> =>
          /\ reg[1].address = area.start
          /\ Wide(reg[1].length) = MulWide(area.chunk_size, area.num_chunks)
          /\ reg[1].chunk_size = area.chunk_size
          /\ reg[1].headroom = config.frame_headroom
          /\ reg[1].flags = config.flags
    /\ (wa_pc \in {"setsockopt", "done"} /\ ReachedReg /\ ProductFits(area)) => reg # <<>>
    /\ ProductFits(area) =>
          /\ UmemStorage_length(area).tag = "Ok"
          /\ Wide(UmemStorage_length(area).val)
                = MulWide(area.chunk_size, area.num_chunks)
    /\ ~ProductFits(area) =>
          /\ UmemStorage_length(area) = [tag |-> "Err", err |-> "Overflow"]
          /\ UmemReg_new(area, config) = [tag |-> "Err", err |-> "Overflow"]
          /\ reg = <<>>
          /\ ~Issued("setsockopt")
          /\ (wa_pc = "done" /\ ReachedReg) => with_area_ret = "Overflow"

\* 2^40 * 2^20 = 2^60 has been registered with headroom 256 and flags 1
C14_Witness ==
    /\ Issued("setsockopt")
    /\ area.chunk_size = USizePow2(40)
    /\ area.num_chunks = USizePow2(20)
    /\ reg[1].length = USizePow2(60)
    /\ reg[1].headroom = 256
    /\ reg[1].flags = 1

\* the parameters the claim calls valid
ValidParams == (\E e \in 0..63 : C = USizePow2(e)) /\ ~USizeIsZero(N)

\* the allocator has been called and has returned memory
AllocSucceeded ==
    \E i \in 1..Len(calls) : calls[i].name = "alloc" /\ ~USizeIsZero(calls[i].ret)

\* C15: when ArrayUmem::new is over: if the chunk size is a power of two
\* (so non-zero), the chunk count is above zero and the allocator returned
\* memory, then new returned Ok, the storage's length() is the exact product
\* C * N, and its start is the allocated pointer, aligned to the page size;
\* if the chunk size is zero or no power of two, or the chunk count is zero,
\* then new has not returned Ok, no storage exists and the allocator was never
\* called.
C15_StorageConstruction ==
    au_pc = "done" =>
        /\ (ValidParams /\ AllocSucceeded) =>
              /\ new_ret = "Ok"
              /\ UmemStorage_length(area).tag = "Ok"
              /\ Wide(UmemStorage_length(area).val) = MulWide(C, N)
              /\ area.chunk_size = C /\ area.num_chunks = N
              /\ Answered("alloc", area.start)
              /\ ~unaligned(area.start, sysconf_ret)
        /\ ~ValidParams =>
              /\ new_ret # "Ok"
              /\ area = NoArea
              /\ ~Issued("alloc")

\* three chunks of 2048 bytes have been allocated on a system with 16384-byte pages
C15_Witness ==
    /\ au_pc = "done"
    /\ new_ret = "Ok"
    /\ C = USize(2048)
    /\ N = USize(3)
    /\ sysconf_ret = 16384
    /\ UmemStorage_length(area).val = USize(6144)

----------------------------------------------------------------------------
(* Claims about Ringbuf::from_map and the end of a Ringbuf *)

\* the mmap calls from_map has made: the consumer page first, the producer
\* region second
MmapCalls == SelectSeq(calls, LAMBDA c : c.name = "mmap")

\* C16: from_map on a map that is no ring buffer makes no call to the system,
\* maps nothing, registers nothing with the reactor and constructs no Ringbuf;
\* it does nothing but return WrongMapType.
C16_WrongTypeRejectedFirst ==
    map.map_type # "RingBuf" =>
        /\ fm_pc \in {"idle", "call", "done"}
        /\ fm_pc = "done" => from_map_ret = "WrongMapType"
        /\ calls = <<>>
        /\ mappings = {}
        /\ registered = {}
        /\ ringbuf = <<>>

\* from_map has returned WrongMapType for a hash map
C16_Witness ==
    /\ fm_pc = "done"
    /\ map.map_type = "Hash"
    /\ from_map_ret = "WrongMapType"

\* C17: once an mmap call of from_map has failed, from_map has returned the
\* error of that mapping (ConsumerMmap for the first, ProducerMmap for the
\* second), has made no further mapping and has constructed no Ringbuf; and the
\* pointers of a Ringbuf are addresses of pages that were mapped.
C17_FailedMappingRejected ==
    /\ (Len(MmapCalls) >= 1 /\ ~Mapped(MmapCalls[1].ret)) =>
          /\ fm_pc = "done"
          /\ from_map_ret = "ConsumerMmap"
          /\ Len(MmapCalls) = 1
          /\ ringbuf = <<>>
    /\ (Len(MmapCalls) >= 2 /\ ~Mapped(MmapCalls[2].ret)) =>
          /\ fm_pc = "done"
          /\ from_map_ret = "ProducerMmap"
          /\ ringbuf = <<>>
    /\ ringbuf # <<>> =>
          /\ Mapped(ringbuf[1].consumer)
          /\ Mapped(ringbuf[1].producer)
          /\ \E m \in mappings : m.addr = ringbuf[1].consumer
          /\ \E m \in mappings : m.addr = ringbuf[1].producer

\* C18: once the Ringbuf has been destroyed, and once from_map has returned
\* without a Ringbuf, none of the mappings from_map created is left; and the
\* map's descriptor is never closed.
C18_MappingsReleased ==
    /\ fm_pc = "dropped" => mappings = {}
    /\ (fm_pc = "done" /\ from_map_ret # "Ok") => mappings = {}
    /\ closes = <<>>
    /\ map.fd \in open_fds

----------------------------------------------------------------------------
(* Claims about what poll_read writes and where it suspends *)

\* C19: a step of poll_read leaves the producer-position cell and every byte of
\* the data region as they were, and the consumer-position cell changes in no
\* step but the consumer's two publishing steps: no step of the kernel's
\* changes it.
C19_ConsumerWritesOnlyConsumerCell ==
    [][/\ ConsumerStep => (producer' = producer /\ data' = data)
       /\ consumer' # consumer =>
             /\ ConsumerStep
             /\ pc \in {"publish", "publish_discard"}
       /\ ~ConsumerStep => consumer' = consumer]_vars

\* poll_read has consumed a discarded and a committed entry while the kernel
\* has reserved a third one behind them
C19_Witness ==
    /\ pc = "idle"
    /\ ret = "ok"
    /\ Len(entries) = 3
    /\ Len(log) = 2
    /\ log[1].kind = "discard"
    /\ consumer = entries[3].pos
    /\ producer > consumer

\* C20: the step in which poll_read returns pending is the readiness poll,
\* taken with the consumer position read equal to the producer position read;
\* the waker is registered in that step only; and the step that reads a busy
\* header (the positions read differ there) goes back to the top of the loop,
\* returns nothing and registers no waker.
C20_PendingOnlyWhenEmpty ==
    [][/\ (pc # "idle" /\ pc' = "idle" /\ ret' = "pending") =>
             /\ pc = "poll_read_ready"
             /\ consumer_pos = producer_pos
       /\ (waker' /\ ~waker) => (pc = "poll_read_ready" /\ consumer_pos = producer_pos)
       /\ (pc = "read_header" /\ ConsumerStep) => consumer_pos # producer_pos
       /\ (pc = "read_header" /\ ConsumerStep
             /\ is_busy(read_volatile_u32(header_offset(consumer_pos)))) =>
             /\ pc' = "read_producer"
             /\ ret' = "none"
             /\ UNCHANGED <<waker, ready, guard, consumer, consumer_pos>>]_vars

\* a busy-retry with three entries reserved, no waker registered and nothing
\* returned
C20_Witness ==
    /\ pc = "read_producer"
    /\ is_busy(len)
    /\ consumer_pos # producer_pos
    /\ ~waker
    /\ ret = "none"
    /\ Len(entries) = 3

----------------------------------------------------------------------------
(* Claims about termination and the positions *)

\* the call is inside its loop with a consumer position that differs from the
\* producer position
InLoop == pc \in {"read_producer", "read_header"} /\ consumer_pos # producer

\* the entry at the published consumer position has its busy bit set
BusyAtConsumer == EntryAt(consumer) # 0 /\ entries[EntryAt(consumer)].st = "busy"

\* the call has returned Ready (Ok or the WriteZero error) or Pending
Returned == pc = "idle" /\ ret \in {"ok", "write_zero", "pending"}

\* C21: with the kernel settling every entry it reserved, a call of poll_read
\* that has started returns Ready or Pending; and as long as the entry at the
\* consumer position keeps its busy bit, a call that is in its loop stays in
\* it: it returns nothing and registers no waker.
C21_CallTerminates ==
    /\ (pc # "idle") ~> Returned
    /\ [][(InLoop /\ BusyAtConsumer /\ BusyAtConsumer') =>
            /\ pc' \in {"read_producer", "read_header"}
            /\ ret' = "none"
            /\ ~waker']_vars

\* C22: the published consumer position is never above the producer position;
\* no step decreases it; and a step that writes it (the consumer's, at one of
\* its two publishing steps) adds to it exactly the footprint of the entry that
\* was at the consumer position.
C22_ConsumerPositionMonotone ==
    /\ [](0 <= consumer /\ consumer <= producer)
    /\ [][/\ consumer' >= consumer
          /\ (log' # log \/ consumer' # consumer) =>
                /\ pc \in {"publish", "publish_discard"}
                /\ Len(log') = Len(log) + 1
                /\ EntryAt(consumer) # 0
                /\ consumer' = consumer + KernelFootprint(entries[EntryAt(consumer)].len)
                /\ consumer' <= producer]_vars

\* three entries of footprint 24 have been consumed: the position has passed
\* the capacity of the ring and has met the producer position
C22_Witness ==
    /\ Len(log) = 3
    /\ consumer = 72
    /\ producer = 72
    /\ log[3].from = 48
    /\ log[3].to = consumer

\* C23: on a Ringbuf whose producer mapping exists, the mask is the capacity
\* less one, the producer mapping is one page and twice the capacity long, and
\* the data pointer is one page past its start; the header address computed for
\* a consumer position is the data pointer plus the position modulo the
\* capacity; the four bytes of the header word, and for a committed entry
\* whose footprint is at most the capacity the payload bytes of the slice, lie
\* below the data pointer plus twice the capacity.
C23_ReadsInsideDataRegion ==
    (access # <<>> /\ ringbuf # <<>> /\ Mapped(ringbuf[1].producer)) =>
        LET rb  == ringbuf[1]
            a   == access[1]
            cap == map.max_entries
            off == USizeToNat(a.consumer_pos) % cap
        IN  /\ rb.mask = cap - 1
            /\ \E m \in mappings :
                  /\ m.addr = rb.producer
                  /\ m.len = page_size + 2 * cap
                  /\ USizeAddSmall(m.addr, m.len).carry = 0
            /\ USizeAddSmall(rb.producer, page_size) = [sum |-> rb.data, carry |-> 0]
            /\ off < cap
            /\ USizeAddSmall(rb.data, off) = [sum |-> a.len_ptr, carry |-> 0]
            /\ off + 4 <= 2 * cap
            /\ a.slice # <<>> =>
                  /\ USizeAddSmall(rb.data, off + 8) = [sum |-> a.slice[1].data, carry |-> 0]
                  /\ a.slice[1].len = a.len.lo
                  /\ KernelFootprint(a.slice[1].len) <= cap =>
                        off + 8 + a.slice[1].len <= 2 * cap

\* the last header of a 64 KiB ring, found at a position above 2^63, with a
\* payload of capacity - 8 bytes that runs into the second mapping of the ring
C23_Witness ==
    /\ access # <<>>
    /\ ringbuf # <<>>
    /\ Mapped(ringbuf[1].producer)
    /\ map.max_entries = 65536
    /\ access[1].consumer_pos = [i \in 1..8 |-> IF i = 1 THEN 248 ELSE 255]
    /\ access[1].len_ptr = (USizeAddSmall(ringbuf[1].data, 65528)).sum
    /\ access[1].slice # <<>>
    /\ access[1].slice[1].len = 65528

====
